---- MODULE Spec2Model ----
(***************************************************************************)
(* Judgebox judge: the /judge endpoint (app/routes.py), the data fetchers  *)
(* (app/services/judge_service.py) and the sandboxed executor              *)
(* (app/services/code_executor.py), as one state machine.                  *)
(*                                                                         *)
(* Python values: None is the empty tuple and a present value x is <<x>>   *)
(* (an option), texts are sequences of one-character strings, dicts are    *)
(* records, exceptions are the name of their class.                        *)
(***************************************************************************)
EXTENDS Integers, Sequences, FiniteSets, TLC

\* ---------------------------------------------------------------- bounds
MaxCases == 2
MaxLen == 2
MaxVerdicts == 4

\* ---------------------------------------------------------------- values
None == << >>
Some(x) == <<x>>
NoExc == "NoExc"

Whitespace == {" ", "\n", "\t", "\r"}
Chars == {"5", " ", "\n"}

RECURSIVE TextsOfLen(_)
TextsOfLen(n) ==
    IF n = 0 THEN {<< >>}
    ELSE {Append(t, c) : t \in TextsOfLen(n - 1), c \in Chars}

Texts == UNION {TextsOfLen(n) : n \in 0..MaxLen}

\* what a container can print: every short text, and the two-line samples
LogOutputs == Texts \cup {<<"5", " ", "\n", "6">>, <<"5", "\n", "6">>}
\* expected outputs the data collaborator hands out
ExpectedOutputs == {<<"5">>, <<"5", "\n">>, <<"5", "\n", "6">>}
\* exit statuses a finished container reports
ExitCodes == {0, 1, 137}

RequestLanguages == {"python", "cpp", "ruby"}

\* configure_language: the language table
LANGUAGE_CONFIGS ==
    [python |-> [image |-> "python:3.9-slim", extension |-> ".py",
                 compile_cmd |-> None, run_cmd |-> "python {filename}"],
     cpp    |-> [image |-> "gcc:latest", extension |-> ".cpp",
                 compile_cmd |-> Some("g++ {filename} -o program"),
                 run_cmd |-> "./program"]]

TestCase(k, out) == [id |-> k, input |-> << >>, output |-> out]

RECURSIVE TestCaseLists(_)
TestCaseLists(n) ==
    IF n = 0 THEN {<< >>}
    ELSE LET shorter == TestCaseLists(n - 1)
         IN  shorter \cup
             {Append(l, TestCase(Len(l) + 1, o)) :
                  l \in {s \in shorter : Len(s) = n - 1}, o \in ExpectedOutputs}

\* ------------------------------------------------------------ pure code
IsSpace(c) == c \in Whitespace

RECURSIVE lstrip(_)
lstrip(s) == IF s # << >> /\ IsSpace(Head(s)) THEN lstrip(Tail(s)) ELSE s

RECURSIVE rstrip(_)
rstrip(s) ==
    IF s # << >> /\ IsSpace(s[Len(s)])
    THEN rstrip(SubSeq(s, 1, Len(s) - 1))
    ELSE s

\* a strip that drops every whitespace character, interior ones included
strip_AllWhitespace(s) == SelectSeq(s, LAMBDA c : ~IsSpace(c))

\* str.strip()
strip(s) == rstrip(lstrip(s))

\* classify comparing the raw texts, without str.strip()
classify_NoStrip(res, test_case) ==
    IF res.exit_code # 0 THEN "RUNTIME_ERROR"
    ELSE IF res.output = None THEN "AttributeError"
    ELSE IF res.output[1] # test_case.output THEN "WRONG_ANSWER"
    ELSE "ACCEPTED"

\* routes.py 35-40: the verdict of one case; None.strip() raises
classify(res, test_case) ==
    IF res.exit_code # 0 THEN "RUNTIME_ERROR"
    ELSE IF res.output = None THEN "AttributeError"
    ELSE IF strip(res.output[1]) # strip(test_case.output) THEN "WRONG_ANSWER"
    ELSE "ACCEPTED"

\* aggregate that passes a RUNTIME_ERROR case on as a third overall value
aggregate_ThreeValued(rs) ==
    IF \A k \in 1..Len(rs) : rs[k].status = "ACCEPTED" THEN "ACCEPTED"
    ELSE IF \E k \in 1..Len(rs) : rs[k].status = "RUNTIME_ERROR"
         THEN "RUNTIME_ERROR"
    ELSE "WRONG_ANSWER"

\* routes.py 50: the overall result
aggregate(rs) ==
    IF \A k \in 1..Len(rs) : rs[k].status = "ACCEPTED"
    THEN "ACCEPTED" ELSE "WRONG_ANSWER"

\* error dicts that leave the exit code at 0
ErrorResult_ExitZero(msg) ==
    [output |-> None, exit_code |-> 0, error |-> Some(msg), status |-> "error"]

\* code_executor.py 186-191, 194-199, 210-215: the three error dicts
ErrorResult(msg) ==
    [output |-> None, exit_code |-> 1, error |-> Some(msg), status |-> "error"]

\* code_executor.py 178-183: the dict returned after wait and logs
SuccessResult(logs, code) ==
    [output |-> Some(logs), exit_code |-> code, error |-> None,
     status |-> "success"]

\* a compile call written without network_mode: the runtime's default network
NewContainer_CompileNetworked(call, phase) ==
    [call |-> call, phase |-> phase,
     network_mode |-> IF phase = "compile" THEN "bridge" ELSE "none",
     started |-> TRUE, remove_issued |-> FALSE]

\* code_executor.py 131-138, 161-172: a sandbox container as the runtime sees
\* it; both calls pass network_mode='none'
NewContainer(call, phase) ==
    [call |-> call, phase |-> phase, network_mode |-> "none",
     started |-> TRUE, remove_issued |-> FALSE]

VARIABLES
    language,       \* request: data['language']
    problem,        \* judge: problem (None until fetched)
    test_cases,     \* judge: test_cases
    pc,             \* judge: position
    outcome,        \* judge: "none", "report", "rejected", "exception"
    raised,         \* judge: exception that ended the request, or NoExc
    http_status,    \* judge: status code of the response, 0 while running
    docker_client,  \* executor: docker_client (None until connected)
    language_config,\* executor: language_config (None until configured)
    i,              \* judge: index of the test case of the for loop
    result,         \* judge: result of executor.execute
    status,         \* judge: status of the current case
    results,        \* judge: results
    final_result,   \* judge: final_result (None until computed)
    epc,            \* execute: position, "idle" outside a call
    exc,            \* execute: exception in flight, or NoExc
    ret,            \* execute: value of the pending return statement
    container,      \* execute: container (0 is None, else index in containers)
    wait_result,    \* execute: result['StatusCode'] of container.wait
    workspaces,     \* live temporary directories
    ws_created,     \* directories created by the current execute call
    ws_destroyed,   \* directories destroyed by the current execute call
    containers,     \* every container the runtime started for this request
    compile_failed, \* the compile phase of the current call raised
    wait_timed_out, \* the bounded wait of the current call hit the deadline
    docker_calls,   \* calls made to the sandbox runtime so far
    exec_calls,     \* indices of the test cases execute was invoked for
    fetch_failed    \* a fetch from the data collaborator failed

vars == <<fetch_failed, language, problem, test_cases, pc, outcome, raised, http_status,
          docker_client, language_config, i, result, status, results,
          final_result, epc, exc, ret, container, wait_result, workspaces,
          ws_created, ws_destroyed, containers, compile_failed,
          wait_timed_out, docker_calls, exec_calls>>

judgeVars == <<fetch_failed, language, problem, test_cases, pc, outcome, raised,
               http_status, docker_client, language_config, i, result,
               status, results, final_result>>

Init ==
    /\ language \in RequestLanguages
    /\ problem = None
    /\ test_cases = << >>
    /\ pc = "get_problem"
    /\ outcome = "none"
    /\ raised = NoExc
    /\ http_status = 0
    /\ docker_client = None
    /\ language_config = None
    /\ i = 0
    /\ result = None
    /\ status = "None"
    /\ results = << >>
    /\ final_result = None
    /\ epc = "idle"
    /\ exc = NoExc
    /\ ret = None
    /\ container = 0
    /\ wait_result = 0
    /\ workspaces = 0
    /\ ws_created = 0
    /\ ws_destroyed = 0
    /\ containers = << >>
    /\ compile_failed = FALSE
    /\ wait_timed_out = FALSE
    /\ docker_calls = 0
    /\ exec_calls = << >>
    /\ fetch_failed = FALSE

execVars == <<epc, exc, ret, container, wait_result, workspaces, ws_created,
              ws_destroyed, containers, compile_failed, wait_timed_out,
              exec_calls>>

\* ------------------------------------------------------------- judge
\* an unhandled exception leaves the view: the framework answers 500
Abort(e) ==
    /\ pc' = "done"
    /\ outcome' = "exception"
    /\ raised' = e
    /\ http_status' = 500

\* judge_service.py 5-13: the body on a 2xx answer, None on any failure
get_problem(ok) ==
    IF ok THEN Some([data |-> [timeLimit |-> 1, memoryLimit |-> 256]])
    ELSE None

\* get_test_cases answering an empty list when the fetch failed
get_test_cases_EmptyOnFailure(ok, tcs) ==
    IF ok THEN Some([data |-> tcs]) ELSE Some([data |-> << >>])

\* judge_service.py 15-23
get_test_cases(ok, tcs) == IF ok THEN Some([data |-> tcs]) ELSE None

\* routes.py 16-17: problem = get_problem(..); problem = problem['data']
GetProblem ==
    /\ pc = "get_problem"
    /\ \E ok \in BOOLEAN :
         LET fetched == get_problem(ok)
         IN  /\ fetch_failed' = ~ok
             /\ IF fetched = None
                THEN /\ Abort("TypeError")
                     /\ UNCHANGED problem
                ELSE /\ problem' = Some(fetched[1].data)
                     /\ pc' = "get_test_cases"
                     /\ UNCHANGED <<outcome, raised, http_status>>
    /\ UNCHANGED <<language, test_cases, docker_client, language_config, i,
                   result, status, results, final_result, docker_calls>>
    /\ UNCHANGED execVars

\* routes.py 18-19
GetTestCases ==
    /\ pc = "get_test_cases"
    /\ \E ok \in BOOLEAN, tcs \in TestCaseLists(MaxCases) :
         LET fetched == get_test_cases(ok, tcs)
         IN  /\ fetch_failed' = ~ok
             /\ IF fetched = None
                THEN /\ Abort("TypeError")
                     /\ UNCHANGED test_cases
                ELSE /\ test_cases' = fetched[1].data
                     /\ pc' = "init_docker"
                     /\ UNCHANGED <<outcome, raised, http_status>>
    /\ UNCHANGED <<language, problem, docker_client, language_config, i,
                   result, status, results, final_result, docker_calls>>
    /\ UNCHANGED execVars

\* routes.py 22, code_executor.py 44, 47-66: connect and ping the runtime,
\* a second time over the unix socket when the first attempt fails
InitializeDocker ==
    /\ pc = "init_docker"
    /\ \E conn \in {"env", "socket", "unreachable"} :
         /\ docker_calls' = docker_calls + (IF conn = "env" THEN 1 ELSE 2)
         /\ IF conn = "unreachable"
            THEN /\ Abort("DockerConnectionError")
                 /\ UNCHANGED docker_client
            ELSE /\ docker_client' = Some(conn)
                 /\ pc' = "configure_language"
                 /\ UNCHANGED <<outcome, raised, http_status>>
    /\ UNCHANGED <<fetch_failed, language, problem, test_cases, language_config, i, result,
                   status, results, final_result>>
    /\ UNCHANGED execVars

\* code_executor.py 45, 68-93 and routes.py 28-29
ConfigureLanguage ==
    /\ pc = "configure_language"
    /\ IF language \in DOMAIN LANGUAGE_CONFIGS
       THEN /\ language_config' = Some(LANGUAGE_CONFIGS[language])
            /\ pc' = "loop"
            /\ i' = 1
            /\ UNCHANGED <<outcome, raised, http_status>>
       ELSE /\ pc' = "done"
            /\ outcome' = "rejected"
            /\ raised' = "UnsupportedLanguageError"
            /\ http_status' = 400
            /\ UNCHANGED <<language_config, i>>
    /\ UNCHANGED <<fetch_failed, language, problem, test_cases, docker_client, result,
                   status, results, final_result, docker_calls>>
    /\ UNCHANGED execVars

\* routes.py 32-33: next test case, or leave the loop
ForLoop ==
    /\ pc = "loop"
    /\ IF i <= Len(test_cases)
       THEN /\ pc' = "in_execute"
            /\ epc' = "prepare_workspace"
            /\ exec_calls' = Append(exec_calls, i)
            /\ exc' = NoExc
            /\ ret' = None
            /\ container' = 0
            /\ ws_created' = 0
            /\ ws_destroyed' = 0
            /\ compile_failed' = FALSE
            /\ wait_timed_out' = FALSE
       ELSE /\ pc' = "aggregate"
            /\ UNCHANGED <<epc, exec_calls, exc, ret, container, ws_created,
                           ws_destroyed, compile_failed, wait_timed_out>>
    /\ UNCHANGED <<fetch_failed, language, problem, test_cases, outcome, raised,
                   http_status, docker_client, language_config, i, result,
                   status, results, final_result, wait_result, workspaces,
                   containers, docker_calls>>

\* routes.py 35-40
Classify ==
    /\ pc = "classify"
    /\ LET verdict == classify(result[1], test_cases[i])
       IN  IF verdict = "AttributeError"
           THEN /\ Abort("AttributeError")
                /\ UNCHANGED status
           ELSE /\ status' = verdict
                /\ pc' = "append"
                /\ UNCHANGED <<outcome, raised, http_status>>
    /\ UNCHANGED <<fetch_failed, language, problem, test_cases, docker_client,
                   language_config, i, result, results, final_result,
                   docker_calls>>
    /\ UNCHANGED execVars

\* routes.py 42-47: result['execution_time'] and result['memory_used'] are
\* dict lookups, a KeyError when execute did not put the key
AppendResult ==
    /\ pc = "append"
    /\ IF {"execution_time", "memory_used"} \subseteq DOMAIN result[1]
       THEN /\ results' = Append(results,
                   [testCaseId |-> test_cases[i].id, status |-> status,
                    executionTime |-> result[1]["execution_time"],
                    memoryUsed |-> result[1]["memory_used"]])
            /\ i' = i + 1
            /\ pc' = "loop"
            /\ UNCHANGED <<outcome, raised, http_status>>
       ELSE /\ Abort("KeyError")
            /\ UNCHANGED <<results, i>>
    /\ UNCHANGED <<fetch_failed, language, problem, test_cases, docker_client,
                   language_config, result, status, final_result,
                   docker_calls>>
    /\ UNCHANGED execVars

\* routes.py 49-56
Aggregate ==
    /\ pc = "aggregate"
    /\ final_result' = Some(aggregate(results))
    /\ pc' = "done"
    /\ outcome' = "report"
    /\ http_status' = 200
    /\ UNCHANGED <<fetch_failed, language, problem, test_cases, raised, docker_client,
                   language_config, i, result, status, results, docker_calls>>
    /\ UNCHANGED execVars

\* ------------------------------------------------------------ execute
inExecute == <<fetch_failed, language, problem, test_cases, outcome, raised, http_status,
               docker_client, language_config, i, status, results,
               final_result, exec_calls>>

\* number of the execute call in progress
CurrentCall == Len(exec_calls)

\* code_executor.py 95-118, 154: enter the workspace scope; a failing write
\* of main<ext> or input.txt raises inside the TemporaryDirectory block
PrepareWorkspace ==
    /\ epc = "prepare_workspace"
    /\ workspaces' = workspaces + 1
    /\ ws_created' = ws_created + 1
    /\ \E written \in BOOLEAN :
         IF written
         THEN /\ epc' = "compile"
              /\ UNCHANGED exc
         ELSE /\ epc' = "ws_exit"
              /\ exc' = "OSError"
    /\ UNCHANGED <<pc, result, ret, container, wait_result, ws_destroyed,
                   containers, compile_failed, wait_timed_out, docker_calls>>
    /\ UNCHANGED inExecute

\* _compile_code that logs a ContainerError and returns
CompileRaises_Swallowed(o) ==
    CASE o \in {"exit0", "nonzero"} -> NoExc
      [] o = "not_started" -> "APIError"
      [] o = "lost" -> "ConnectionError"

\* code_executor.py 130-141: what leaves _compile_code for each way the
\* blocking containers.run(.., remove=True) can end.  Only ContainerError is
\* caught, and re-raised as CompilationError.
CompileRaises(o) ==
    CASE o = "exit0" -> NoExc
      [] o = "nonzero" -> "CompilationError"
      [] o = "not_started" -> "APIError"
      [] o = "lost" -> "ConnectionError"

\* code_executor.py 131-138: the compile container.  The runtime library
\* removes it (remove=True) after it has waited for it; when the library's
\* own wait or log read fails ("lost") the container was started and nothing
\* removes it.
CompileContainers(o) ==
    CASE o \in {"exit0", "nonzero"} ->
            Append(containers, [NewContainer(CurrentCall, "compile")
                                   EXCEPT !.remove_issued = TRUE])
      [] o = "lost" -> Append(containers, NewContainer(CurrentCall, "compile"))
      [] o = "not_started" -> containers

\* code_executor.py 155-156, 120-141
CompileCode ==
    /\ epc = "compile"
    /\ IF language_config[1].compile_cmd = None
       THEN /\ epc' = "run"
            /\ UNCHANGED <<exc, containers, compile_failed, docker_calls>>
       ELSE \E o \in {"exit0", "nonzero", "not_started", "lost"} :
              /\ docker_calls' = docker_calls + 1
              /\ containers' = CompileContainers(o)
              /\ compile_failed' = (o # "exit0")
              /\ exc' = CompileRaises(o)
              /\ epc' = IF CompileRaises(o) = NoExc THEN "run" ELSE "ws_exit"
    /\ UNCHANGED <<pc, result, ret, container, wait_result, workspaces,
                   ws_created, ws_destroyed, wait_timed_out>>
    /\ UNCHANGED inExecute

\* code_executor.py 185-199: the two handlers around the run phase turn
\* NotFound and ContainerError into an error dict; anything else travels on
RunHandlerReturn(e) ==
    CASE e = "NotFound" -> Some(ErrorResult("Container was removed unexpectedly"))
      [] e = "ContainerError" -> Some(ErrorResult(e))
      [] OTHER -> None

\* an exception e raised inside the try of line 159
RaiseInRun(e) ==
    /\ ret' = RunHandlerReturn(e)
    /\ exc' = IF RunHandlerReturn(e) = None THEN e ELSE NoExc
    /\ epc' = "finally"

\* code_executor.py 158-172: container = None; containers.run(detach=True)
RunContainer ==
    /\ epc = "run"
    /\ docker_calls' = docker_calls + 1
    /\ \E o \in {"started", "APIError", "ContainerError"} :
         IF o = "started"
         THEN /\ containers' = Append(containers,
                                      NewContainer(CurrentCall, "run"))
              /\ container' = Len(containers) + 1
              /\ epc' = "wait"
              /\ UNCHANGED <<exc, ret>>
         ELSE /\ RaiseInRun(o)
              /\ container' = 0
              /\ UNCHANGED containers
    /\ UNCHANGED <<pc, result, wait_result, workspaces, ws_created,
                   ws_destroyed, compile_failed, wait_timed_out>>
    /\ UNCHANGED inExecute

\* code_executor.py 175: container.wait(timeout=self.time_limit); the
\* deadline surfaces as the HTTP client's ReadTimeout
WaitContainer ==
    /\ epc = "wait"
    /\ docker_calls' = docker_calls + 1
    /\ \/ \E code \in ExitCodes :
            /\ wait_result' = code
            /\ epc' = "logs"
            /\ UNCHANGED <<exc, ret, wait_timed_out>>
       \/ \E e \in {"ReadTimeout", "NotFound", "APIError"} :
            /\ RaiseInRun(e)
            /\ wait_timed_out' = (e = "ReadTimeout")
            /\ UNCHANGED wait_result
    /\ UNCHANGED <<pc, result, container, workspaces, ws_created,
                   ws_destroyed, containers, compile_failed>>
    /\ UNCHANGED inExecute

\* code_executor.py 176-183: container.logs() and the success dict
ReadLogs ==
    /\ epc = "logs"
    /\ docker_calls' = docker_calls + 1
    /\ \/ \E logs \in LogOutputs :
            /\ ret' = Some(SuccessResult(logs, wait_result))
            /\ epc' = "finally"
            /\ UNCHANGED exc
       \/ \E e \in {"NotFound", "APIError"} : RaiseInRun(e)
    /\ UNCHANGED <<pc, result, container, wait_result, workspaces,
                   ws_created, ws_destroyed, containers, compile_failed,
                   wait_timed_out>>
    /\ UNCHANGED inExecute

\* code_executor.py 205-206: except docker.errors.APIError: pass
CleanupIgnores(e) == e = "APIError"

\* a cleanup that never issues the removal
Finally_NoRemove ==
    /\ epc = "finally"
    /\ epc' = "ws_exit"
    /\ UNCHANGED <<docker_calls, containers, exc, ret>>
    /\ UNCHANGED <<pc, result, container, wait_result, workspaces,
                   ws_created, ws_destroyed, compile_failed, wait_timed_out>>
    /\ UNCHANGED inExecute

\* code_executor.py 201-206: container.remove(force=True) when a container
\* was obtained; an exception that escapes the finally block replaces the
\* pending return value
Finally ==
    /\ epc = "finally"
    /\ IF container # 0
       THEN /\ docker_calls' = docker_calls + 1
            /\ containers' = [containers EXCEPT ![container].remove_issued = TRUE]
            /\ \E r \in {"removed", "APIError", "ConnectionError"} :
                 IF r = "removed" \/ CleanupIgnores(r)
                 THEN UNCHANGED <<exc, ret>>
                 ELSE /\ exc' = r
                      /\ ret' = None
       ELSE UNCHANGED <<docker_calls, containers, exc, ret>>
    /\ epc' = "ws_exit"
    /\ UNCHANGED <<pc, result, container, wait_result, workspaces,
                   ws_created, ws_destroyed, compile_failed, wait_timed_out>>
    /\ UNCHANGED inExecute

\* a workspace made with mkdtemp and deleted after the body, without finally
WorkspaceExit_Leak ==
    /\ epc = "ws_exit"
    /\ workspaces' = IF exc = NoExc THEN workspaces - 1 ELSE workspaces
    /\ ws_destroyed' = IF exc = NoExc THEN ws_destroyed + 1 ELSE ws_destroyed
    /\ epc' = IF exc = NoExc THEN "return" ELSE "except"
    /\ UNCHANGED <<pc, result, exc, ret, container, wait_result, ws_created,
                   containers, compile_failed, wait_timed_out, docker_calls>>
    /\ UNCHANGED inExecute

\* code_executor.py 106, 154: leaving the with block deletes the directory,
\* on a return and on an exception alike
WorkspaceExit ==
    /\ epc = "ws_exit"
    /\ workspaces' = workspaces - 1
    /\ ws_destroyed' = ws_destroyed + 1
    /\ epc' = IF exc = NoExc THEN "return" ELSE "except"
    /\ UNCHANGED <<pc, result, exc, ret, container, wait_result, ws_created,
                   containers, compile_failed, wait_timed_out, docker_calls>>
    /\ UNCHANGED inExecute

\* a handler written as "except ExecutionError"
OuterCatches_OnlyExecutionError(e) ==
    e \in {"CompilationError", "DockerConnectionError", "ExecutionTimeoutError"}

\* code_executor.py 208: except Exception catches every class raised here
OuterCatches(e) == TRUE

\* code_executor.py 208-215
OuterExcept ==
    /\ epc = "except"
    /\ IF OuterCatches(exc)
       THEN /\ ret' = Some(ErrorResult(exc))
            /\ exc' = NoExc
       ELSE UNCHANGED <<ret, exc>>
    /\ epc' = "return"
    /\ UNCHANGED <<pc, result, container, wait_result, workspaces,
                   ws_created, ws_destroyed, containers, compile_failed,
                   wait_timed_out, docker_calls>>
    /\ UNCHANGED inExecute

\* routes.py 33: execute hands its dict to judge; an exception leaving
\* execute would leave judge as well (the loop has no handler)
Return ==
    /\ epc = "return"
    /\ epc' = "idle"
    /\ IF exc = NoExc
       THEN /\ result' = ret
            /\ pc' = "classify"
            /\ UNCHANGED <<outcome, raised, http_status>>
       ELSE /\ Abort(exc)
            /\ UNCHANGED result
    /\ UNCHANGED <<fetch_failed, language, problem, test_cases, docker_client,
                   language_config, i, status, results, final_result,
                   exec_calls, exc, ret, container, wait_result, workspaces,
                   ws_created, ws_destroyed, containers, compile_failed,
                   wait_timed_out, docker_calls>>

Next ==
    \/ GetProblem
    \/ GetTestCases
    \/ InitializeDocker
    \/ ConfigureLanguage
    \/ ForLoop
    \/ PrepareWorkspace
    \/ CompileCode
    \/ RunContainer
    \/ WaitContainer
    \/ ReadLogs
    \/ Finally
    \/ WorkspaceExit
    \/ OuterExcept
    \/ Return
    \/ Classify
    \/ AppendResult
    \/ Aggregate

Spec == Init /\ [][Next]_vars

\* ------------------------------------------- the aggregation on its own
CaseStatuses == {"ACCEPTED", "WRONG_ANSWER", "RUNTIME_ERROR"}

RECURSIVE VerdictLists(_)
VerdictLists(n) ==
    IF n = 0 THEN {<< >>}
    ELSE LET shorter == VerdictLists(n - 1)
         IN  shorter \cup
             {Append(l, [testCaseId |-> Len(l) + 1, status |-> v,
                         executionTime |-> 0, memoryUsed |-> 0]) :
                  l \in {s \in shorter : Len(s) = n - 1}, v \in CaseStatuses}

\* judge at line 49 with any list of case results in hand
InitAggregate ==
    /\ language = "python"
    /\ problem = get_problem(TRUE)
    /\ test_cases = << >>
    /\ pc = "aggregate"
    /\ outcome = "none"
    /\ raised = NoExc
    /\ http_status = 0
    /\ docker_client = Some("env")
    /\ language_config = Some(LANGUAGE_CONFIGS["python"])
    /\ i = 0
    /\ result = None
    /\ status = "None"
    /\ results \in VerdictLists(MaxVerdicts)
    /\ final_result = None
    /\ epc = "idle"
    /\ exc = NoExc
    /\ ret = None
    /\ container = 0
    /\ wait_result = 0
    /\ workspaces = 0
    /\ ws_created = 0
    /\ ws_destroyed = 0
    /\ containers = << >>
    /\ compile_failed = FALSE
    /\ wait_timed_out = FALSE
    /\ docker_calls = 1
    /\ exec_calls = << >>
    /\ fetch_failed = FALSE

NextAggregate == Aggregate

SpecAggregate == InitAggregate /\ [][NextAggregate]_vars

\* ------------------------------------------------------------- claims
StartedBy(call) ==
    {k \in 1..Len(containers) :
        containers[k].call = call /\ containers[k].started}

\* C1: when execute returns, every container the call started, in the
\* compile phase or in the run phase, has had a removal issued on it.
C1_StartedContainersRemoved ==
    epc = "return" =>
        \A k \in StartedBy(CurrentCall) : containers[k].remove_issued

ResultKeys == {"output", "exit_code", "error", "status"}

\* C2: execute never raises: whatever failed, it comes back with no exception
\* in flight and a dict holding output, exit_code, error and status.
C2_ExecuteNeverRaises ==
    /\ epc = "return" =>
          /\ exc = NoExc
          /\ ret # None
          /\ DOMAIN ret[1] = ResultKeys
    /\ pc = "classify" => result # None /\ DOMAIN result[1] = ResultKeys
    /\ raised \notin {"OSError", "CompilationError", "APIError",
                      "ConnectionError", "ReadTimeout", "NotFound",
                      "ContainerError"}

\* an exception raised by a failing workspace write came back as a dict
C2_Witness ==
    /\ epc = "return"
    /\ ret # None
    /\ ret[1].error = Some("OSError")

\* C3: each execute call creates exactly one workspace and destroys exactly
\* one, the destruction is done when execute returns, and no workspace is
\* alive outside a call.
C3_OneWorkspacePerCall ==
    /\ ws_created <= 1
    /\ epc \in {"return", "idle"} => workspaces = 0
    /\ epc = "return" => ws_created = 1 /\ ws_destroyed = 1
    /\ (epc = "idle" /\ exec_calls # << >>) =>
           ws_created = 1 /\ ws_destroyed = 1

\* a call that ended on the deadline of the wait has torn its workspace down
C3_Witness ==
    /\ epc = "return"
    /\ wait_timed_out
    /\ ws_created = 1
    /\ ws_destroyed = 1
    /\ workspaces = 0

\* C4: after a failed compile phase of a compiled language the call never
\* reaches the run phase and no run-phase container exists for it.
C4_NoRunAfterCompileFailure ==
    compile_failed =>
        /\ epc \notin {"run", "wait", "logs", "finally"}
        /\ container = 0
        /\ \A k \in 1..Len(containers) :
              containers[k].call = CurrentCall => containers[k].phase # "run"

\* the compiler exited non-zero and execute is about to return
C4_Witness ==
    /\ compile_failed
    /\ language_config[1].compile_cmd # None
    /\ epc = "return"
    /\ ret = Some(ErrorResult("CompilationError"))

\* C5: when the bounded wait hits the time limit, execute returns a result
\* whose status is timeout.
C5_TimeoutStatus ==
    (epc = "return" /\ wait_timed_out) =>
        ret # None /\ ret[1].status = "timeout"

\* the text between the first and the last non-whitespace character
NonSpaceAt(s) == {k \in 1..Len(s) : s[k] \notin Whitespace}

Trimmed(s) ==
    IF NonSpaceAt(s) = {} THEN << >>
    ELSE LET lo == CHOOSE k \in NonSpaceAt(s) : \A j \in NonSpaceAt(s) : k <= j
             hi == CHOOSE k \in NonSpaceAt(s) : \A j \in NonSpaceAt(s) : k >= j
         IN  [k \in 1..(hi - lo + 1) |-> s[lo + k - 1]]

VerdictRule(res, test_case) ==
    IF res.exit_code # 0 \/ res.status # "success" THEN "RUNTIME_ERROR"
    ELSE IF Trimmed(res.output[1]) # Trimmed(test_case.output)
         THEN "WRONG_ANSWER"
    ELSE "ACCEPTED"

\* C6: the verdict of a case is RUNTIME_ERROR when the exit code is non-zero
\* or the execution status is not success, else WRONG_ANSWER when output and
\* expected output differ after removing leading and trailing whitespace,
\* else ACCEPTED; and the rule always yields a verdict.
C6_VerdictRule ==
    /\ pc = "append" => status = VerdictRule(result[1], test_cases[i])
    /\ raised # "AttributeError"

\* output and expected output differ as texts and are equal once trimmed
C6_Witness ==
    /\ pc = "append"
    /\ status = "ACCEPTED"
    /\ result[1].output[1] # test_cases[i].output

StatusesOf(rs) == {rs[k].status : k \in 1..Len(rs)}

\* C7: the overall result is ACCEPTED or WRONG_ANSWER, and it is ACCEPTED
\* exactly when every case verdict is ACCEPTED.
C7_AggregateTwoValued ==
    final_result # None =>
        /\ final_result[1] \in {"ACCEPTED", "WRONG_ANSWER"}
        /\ final_result[1] = "ACCEPTED" <=> StatusesOf(results) \subseteq {"ACCEPTED"}
        /\ "RUNTIME_ERROR" \in StatusesOf(results) =>
               final_result[1] = "WRONG_ANSWER"

\* [ACCEPTED, ACCEPTED, WRONG_ANSWER] aggregated to WRONG_ANSWER
C7_Witness ==
    /\ final_result = Some("WRONG_ANSWER")
    /\ Len(results) = 3
    /\ results[1].status = "ACCEPTED"
    /\ results[2].status = "ACCEPTED"
    /\ results[3].status = "WRONG_ANSWER"

\* C8: once the executor is constructed, judge ends having invoked execute
\* once per test case, in order, with one case verdict per test case in the
\* same order.
C8_EveryCaseExecuted ==
    (pc = "done" /\ language_config # None) =>
        /\ Len(exec_calls) = Len(test_cases)
        /\ \A k \in 1..Len(exec_calls) : exec_calls[k] = k
        /\ Len(results) = Len(test_cases)
        /\ \A k \in 1..Len(results) : results[k].testCaseId = test_cases[k].id

\* C9: a judge request ends in a full report or in a rejection, never in an
\* unhandled exception.
C9_ReportOrRejection ==
    pc = "done" =>
        /\ outcome \in {"report", "rejected"}
        /\ outcome = "report" =>
              final_result # None /\ Len(results) = Len(test_cases)

\* C10: when UnsupportedLanguageError is raised no call to the sandbox
\* runtime has been made and no workspace or container exists.
C10_FailFast ==
    raised = "UnsupportedLanguageError" =>
        /\ docker_calls = 0
        /\ workspaces = 0
        /\ containers = << >>

\* C11: a request with an unsupported language that reached the construction
\* of the executor is answered 400 with UnsupportedLanguageError and runs no
\* test case, whatever the state of the connection to the sandbox runtime.
C11_UnsupportedIsRejected ==
    (pc = "done" /\ docker_calls > 0
                 /\ language \notin DOMAIN LANGUAGE_CONFIGS) =>
        /\ outcome = "rejected"
        /\ http_status = 400
        /\ raised = "UnsupportedLanguageError"
        /\ exec_calls = << >>

\* C12: when a fetch of the problem or of the test cases failed, judge has
\* failed with no executor constructed, no call to the sandbox runtime, no
\* execute call, no workspace, no container and no case result.
C12_NoJudgingWithoutData ==
    fetch_failed =>
        /\ pc = "done"
        /\ outcome = "exception"
        /\ docker_client = None
        /\ language_config = None
        /\ docker_calls = 0
        /\ exec_calls = << >>
        /\ workspaces = 0
        /\ ws_created = 0
        /\ containers = << >>
        /\ results = << >>
        /\ final_result = None

\* the problem was fetched and the fetch of the test cases failed
C12_Witness ==
    /\ fetch_failed
    /\ problem # None
    /\ pc = "done"

\* C13: every container the executor ever created, in the compile phase and
\* in the run phase, was created with the network disabled.
C13_NetworkDisabled ==
    \A k \in 1..Len(containers) : containers[k].network_mode = "none"

\* a compile-phase and a run-phase container of the same call both exist
C13_Witness ==
    \E k, j \in 1..Len(containers) :
        /\ containers[k].phase = "compile"
        /\ containers[j].phase = "run"
        /\ containers[k].call = containers[j].call

\* C14: a failed compile phase gives the execution result the status
\* compile_error, a status no run-phase or infrastructure failure gets.
C14_CompileErrorStatus ==
    (epc = "return" /\ compile_failed) =>
        ret # None /\ ret[1].status = "compile_error"

\* s is core with whitespace in front of it and behind it, and nothing else
OuterPadded(s, core) ==
    \E a \in 0..Len(s) :
        /\ a + Len(core) <= Len(s)
        /\ SubSeq(s, a + 1, a + Len(core)) = core
        /\ \A k \in 1..a : s[k] \in Whitespace
        /\ \A k \in (a + Len(core) + 1)..Len(s) : s[k] \in Whitespace

\* the two texts differ in leading and trailing whitespace only
SameButOuterWhitespace(s, t) ==
    \E lo \in 1..(Len(s) + 1), hi \in 0..Len(s) :
        /\ OuterPadded(s, SubSeq(s, lo, hi))
        /\ OuterPadded(t, SubSeq(s, lo, hi))

\* a case whose program exited with 0 and printed out, expected text exp
ZeroExitCase(out, exp) ==
    /\ pc = "append"
    /\ result[1].exit_code = 0
    /\ result[1].output = Some(out)
    /\ test_cases[i].output = exp

\* C15 as stated: captured "5\n" against expected "5" is ACCEPTED, and
\* captured "5 \n6" against expected "5\n6" is ACCEPTED too.
C15_TrimmingLawAsStated ==
    /\ ZeroExitCase(<<"5", "\n">>, <<"5">>) => status = "ACCEPTED"
    /\ ZeroExitCase(<<"5", " ", "\n", "6">>, <<"5", "\n", "6">>) =>
           status = "ACCEPTED"

\* C15 amended: with exit code 0, texts that differ only in leading and
\* trailing whitespace are ACCEPTED, so "5\n" against "5" is ACCEPTED; "5 \n6"
\* against "5\n6" differs in interior whitespace and is WRONG_ANSWER.
C15_TrimmingLaw ==
    /\ (pc = "append" /\ result[1].exit_code = 0
           /\ SameButOuterWhitespace(result[1].output[1], test_cases[i].output))
         => status = "ACCEPTED"
    /\ ZeroExitCase(<<"5", "\n">>, <<"5">>) => status = "ACCEPTED"
    /\ ZeroExitCase(<<"5", " ", "\n", "6">>, <<"5", "\n", "6">>) =>
           status = "WRONG_ANSWER"

\* the interior blank made the case WRONG_ANSWER
C15_Witness ==
    /\ ZeroExitCase(<<"5", " ", "\n", "6">>, <<"5", "\n", "6">>)
    /\ status = "WRONG_ANSWER"

\* what execute hands back once r is the pending return value and e the
\* exception in flight (code_executor.py 208-215)
ReturnedValue(r, e) == IF e = NoExc THEN r ELSE Some(ErrorResult(e))

\* C16: once the run phase has determined its result, the cleanup step does
\* not change what execute returns: whatever the forced removal raises, the
\* result is the one determined before it.
C16_CleanupErrorsIgnored ==
    [][(epc = "finally" /\ ret # None) =>
           ReturnedValue(ret', exc') = ret]_vars

\* run-phase containers on which no removal has been issued yet
LiveRunContainers ==
    {k \in 1..Len(containers) :
        containers[k].phase = "run" /\ ~containers[k].remove_issued}

C18_ContainerInsideWorkspace ==
    /\ epc \in {"run", "wait", "logs", "finally"} => workspaces = 1
    /\ \A k \in LiveRunContainers :
          workspaces = 1 /\ containers[k].call = CurrentCall

\* on an exception path: removal issued, workspace not yet deleted
C18_Witness ==
    /\ epc = "ws_exit"
    /\ exc # NoExc
    /\ container # 0
    /\ containers[container].remove_issued
    /\ workspaces = 1

\* r has no output or the status error
AbsentOrError(r) == r.output = None \/ r.status = "error"

\* an absent output comes with a non-zero exit code, status error with 1
ErrorShape(r) ==
    /\ r.output = None => r.exit_code # 0
    /\ r.status = "error" => r.exit_code = 1

\* C19: in every result of execute an absent output implies a non-zero exit
\* code and status error implies exit code 1; the verdict rule never strips
\* an absent output, and such a result is always RUNTIME_ERROR.
C19_AbsentOutputIsError ==
    /\ (epc = "return" /\ ret # None) => ErrorShape(ret[1])
    /\ pc \in {"classify", "append"} => ErrorShape(result[1])
    /\ raised # "AttributeError"
    /\ (pc = "append" /\ AbsentOrError(result[1])) => status = "RUNTIME_ERROR"

\* a result without output was classified
C19_Witness ==
    /\ pc = "append"
    /\ result[1].output = None
    /\ result[1].status = "error"
    /\ status = "RUNTIME_ERROR"

\* C20: with an empty list of test cases and a supported language, judge
\* executes nothing and returns a report: ACCEPTED, no case results.
C20_EmptyListAccepted ==
    (pc = "done" /\ ~fetch_failed /\ test_cases = << >>
                 /\ language \in DOMAIN LANGUAGE_CONFIGS) =>
        /\ outcome = "report"
        /\ final_result = Some("ACCEPTED")
        /\ results = << >>
        /\ exec_calls = << >>
        /\ ws_created = 0
        /\ containers = << >>

====
